---- MODULE Spec2Model ----
(***************************************************************************)
(* VelocityController<...>::set_target of roboost_motor_control             *)
(* (velocity_motor_controller.hpp).  One control step: sample the encoder,  *)
(* filter, rate-limit the setpoint, run the PID, filter its output, apply   *)
(* deadband and minimum output, scale to an int32_t and write the driver.   *)
(*                                                                          *)
(* The collaborators (encoder, filters, rate limiter, PID, driver) are      *)
(* template parameters: what they return is an input of the step, drawn     *)
(* from small sets.  Real values are carried as integers counting           *)
(* 1/Resolution, so 0.5 is 50 and 0.01 is 1.  The arithmetic on `output`    *)
(* (lines 73-83) is done on exact fractions with the IEEE special values    *)
(* NaN and +-inf, which the division of line 79 can produce.                *)
(*                                                                          *)
(* velocity_motor_controller.cpp defines members of a non-template          *)
(* VelocityController that the header it includes does not declare; it      *)
(* cannot be compiled against this header and is not part of the model.     *)
(***************************************************************************)
EXTENDS Integers, Sequences, FiniteSets, TLC

VARIABLES abs_overload, deadband_threshold_, minimum_output_, current_setpoint_,
          motor_driver_, calls, status

vars == <<abs_overload, deadband_threshold_, minimum_output_, current_setpoint_,
          motor_driver_, calls, status>>

----------------------------------------------------------------------------
(* Constants and input sets *)

\* absolute range of the driver command (value of the spec's scenarios)
PWM_RESOLUTION == 4096

INT32_MAX == 2147483647

INT32_MIN == -INT32_MAX - 1

\* reals are carried as integer multiples of 1/Resolution
Resolution == 10 * 10

\* desired speeds are 0, 5.0, ..., 5.0 * MaxDesired
MaxDesired == 1

DesiredSpeeds == {5 * Resolution * k : k \in 0..MaxDesired}

\* encoder velocity read at line 64: 1.25
EncoderVelocities == {125}

\* input filter results: 0.6
FilteredVelocities == {60}

\* rate limiter results: 0.1, -2.5 and 5.0
RateLimitedSetpoints == {10, -250, 500}

\* PID results: 0.5
PidOutputs == {50}

\* output filter results: -1.5, -0.05, 0, 0.01, 0.5, 1.0, 150 and 500
FilteredOutputs == {-150, -5, 0, 1, 50, 100, 15000, 50000}

\* <<deadband_threshold, minimum_output>> pairs handed to the constructor,
\* which stores any two int32_t values
Configs == {<<100, 300>>, <<0, 0>>, <<0, 300>>, <<400, 300>>, <<0, 5000>>, <<-1, 0>>}

\* which `abs` the unqualified call of lines 73-79 resolves to in the build:
\* the floating-point overload (or the Arduino macro), or ::abs(int)
AbsOverloads == {"float", "int"}

----------------------------------------------------------------------------
(* Arithmetic *)

Sign(x) == IF x > 0 THEN 1 ELSE IF x < 0 THEN -1 ELSE 0

Abs(x) == IF x < 0 THEN -x ELSE x

\* C++ conversion of a quotient to an integer: truncation toward zero
TruncDiv(a, b) == Sign(a) * Sign(b) * (Abs(a) \div Abs(b))

RECURSIVE GCD(_, _)
GCD(a, b) == IF b = 0 THEN a ELSE GCD(b, a % b)

\* a finite float n/d in lowest terms, d > 0
Fin(n, d) ==
    LET g == GCD(Abs(n), Abs(d))
    IN  [k |-> "fin", n |-> Sign(d) * (n \div g), d |-> Abs(d) \div g]

NaN == [k |-> "nan", n |-> 0, d |-> 1]

Inf(s) == [k |-> "inf", n |-> s, d |-> 1]

\* the float holding x/Resolution
FromReal(x) == Fin(x, Resolution)

\* float -> int64_t (line 67, assignment to current_setpoint_)
ToInt64(x) == TruncDiv(x, Resolution)

\* int64_t -> float (line 69, current_setpoint_ passed to pid_.update)
FromInt64(i) == i * Resolution

\* float < int
FLess(a, i) == a.k = "fin" /\ a.n < i * a.d

\* float / float, divisor finite and >= 0
FDiv(x, a) ==
    IF a.n = 0
    THEN IF x.n = 0 THEN NaN ELSE Inf(Sign(x.n))
    ELSE Fin(x.n * a.d, x.d * a.n)

\* int * float
IMul(i, x) ==
    CASE x.k = "fin" -> Fin(i * x.n, x.d)
      [] x.k = "inf" -> IF i = 0 THEN NaN ELSE Inf(Sign(i) * x.n)
      [] OTHER       -> NaN

----------------------------------------------------------------------------
(* The control law, lines 72-83 *)

\* abs(output), lines 73, 77 and 79.  With ::abs(int) the float argument is
\* first converted to int (truncated) and the result is an int.
abs(output) ==
    IF abs_overload = "float"
    THEN Fin(Abs(output.n), output.d)
    ELSE Fin(Abs(TruncDiv(output.n, output.d)), 1)

AdjustOutput_no_floor(output) ==
    IF FLess(abs(output), deadband_threshold_) THEN Fin(0, 1) ELSE output

AdjustOutput_no_deadband(output) ==
    IF FLess(abs(output), minimum_output_)
    THEN IMul(minimum_output_, FDiv(output, abs(output)))
    ELSE output

\* lines 73-80: the thresholds, integers in PWM counts, are compared with the
\* unscaled output; the floor is minimum_output_ * (output / abs(output))
AdjustOutput(output) ==
    IF FLess(abs(output), deadband_threshold_)
    THEN Fin(0, 1)
    ELSE IF FLess(abs(output), minimum_output_)
         THEN IMul(minimum_output_, FDiv(output, abs(output)))
         ELSE output

\* static_cast<int32_t>(x), line 83: truncation toward zero when the value
\* fits; otherwise the conversion is undefined and the result is whatever the
\* target's convert instruction leaves (0x80000000 on x86, saturation or 0
\* elsewhere)
StaticCastInt32(x) ==
    CASE x.k = "nan" -> {INT32_MIN, 0, INT32_MAX}
      [] x.k = "inf" -> IF x.n > 0 THEN {INT32_MIN, INT32_MAX} ELSE {INT32_MIN}
      [] OTHER ->
           LET t == TruncDiv(x.n, x.d)
           IN  IF t > INT32_MAX THEN {INT32_MIN, INT32_MAX}
               ELSE IF t < INT32_MIN THEN {INT32_MIN}
               ELSE {t}

\* the values motor_control_value can take for a filtered PID output u
\* (lines 72-83)
MotorControlValues(u) ==
    StaticCastInt32(IMul(PWM_RESOLUTION, AdjustOutput(FromReal(u))))

----------------------------------------------------------------------------
(* The step, lines 61-86 *)

\* a call that returned: its arguments and its result (<<>> for void)
Call(fn, args, ret) == [fn |-> fn, args |-> args, ret |-> ret, threw |-> FALSE]

StepCalls_read_before_update(desired, y0, y, r, u0, u, cmd) ==
    << Call("encoder.get_velocity_radians_per_second", <<>>, <<y0>>),
       Call("encoder.update", <<>>, <<>>),
       Call("input_filter.update", <<y0>>, <<y>>),
       Call("rate_limiting_filter.update", <<desired, y>>, <<r>>),
       Call("pid.update", <<FromInt64(ToInt64(r)), y>>, <<u0>>),
       Call("output_filter.update", <<u0>>, <<u>>),
       Call("motor_driver.set_motor_control", <<cmd>>, <<>>) >>

\* the collaborator calls of one step that runs to its end, in the order of
\* the statements, each with its arguments and its result.  pid_.update is
\* handed current_setpoint_, the int64_t the rate limiter's float was stored in.
StepCalls(desired, y0, y, r, u0, u, cmd) ==
    << Call("encoder.update", <<>>, <<>>),
       Call("encoder.get_velocity_radians_per_second", <<>>, <<y0>>),
       Call("input_filter.update", <<y0>>, <<y>>),
       Call("rate_limiting_filter.update", <<desired, y>>, <<r>>),
       Call("pid.update", <<FromInt64(ToInt64(r)), y>>, <<u0>>),
       Call("output_filter.update", <<u0>>, <<u>>),
       Call("motor_driver.set_motor_control", <<cmd>>, <<>>) >>

\* a call that threw returned nothing
Thrown(c) == [c EXCEPT !.ret = <<>>, !.threw = TRUE]

CallsMade_write_on_failure(full, failAt) ==
    IF failAt = 0
    THEN full
    ELSE SubSeq(full, 1, failAt - 1) \o <<Thrown(full[failAt]), full[Len(full)]>>

\* the calls made when call number failAt throws (0: none does; 7: the
\* driver write of line 85): set_target has no handler, so the exception
\* leaves the function at that statement
CallsMade(full, failAt) ==
    IF failAt = 0
    THEN full
    ELSE SubSeq(full, 1, failAt - 1) \o <<Thrown(full[failAt])>>

\* the values call number k can return when call failAt throws: a call that
\* is not reached, or throws, returns none (0 stands for it)
Returned(failAt, k, S) == IF failAt = 0 \/ failAt > k THEN S ELSE {0}

\* a command the driver took: a set_motor_control call that returned
IsWrite(c) == c.fn = "motor_driver.set_motor_control" /\ ~c.threw

Writes(log) == {i \in 1..Len(log) : IsWrite(log[i])}

set_target(desired) ==
    \E failAt \in 0..7 :
    \E y0 \in Returned(failAt, 2, EncoderVelocities),
       y  \in Returned(failAt, 3, FilteredVelocities),
       r  \in Returned(failAt, 4, RateLimitedSetpoints),
       u0 \in Returned(failAt, 5, PidOutputs),
       u  \in Returned(failAt, 6, FilteredOutputs) :
    \E cmd \in MotorControlValues(u) :
        LET log == CallsMade(StepCalls(desired, y0, y, r, u0, u, cmd), failAt)
            w   == Writes(log)
        IN  /\ calls' = log
            /\ status' = IF failAt = 0 THEN "completed" ELSE "failed"
            /\ current_setpoint_' =
                 IF failAt = 0 \/ failAt > 4 THEN ToInt64(r) ELSE current_setpoint_
            /\ motor_driver_' =
                 IF w = {} THEN motor_driver_
                 ELSE log[CHOOSE i \in w : \A j \in w : j <= i].args[1]
            /\ UNCHANGED <<abs_overload, deadband_threshold_, minimum_output_>>

\* line 90: the int64_t field, returned as int64_t
get_setpoint == current_setpoint_

\* lines 48-54: the constructor stores its arguments and checks nothing
Init ==
    /\ abs_overload \in AbsOverloads
    /\ \E c \in Configs : deadband_threshold_ = c[1] /\ minimum_output_ = c[2]
    /\ current_setpoint_ = 0
    /\ motor_driver_ = 0
    /\ calls = <<>>
    /\ status = "constructed"

Next == \E desired \in DesiredSpeeds : set_target(desired)

Spec == Init /\ [][Next]_vars

----------------------------------------------------------------------------
(* What the last step did, read from its calls *)

Made(fn) == {i \in 1..Len(calls) : calls[i].fn = fn}

CallOf(fn) == calls[CHOOSE i \in Made(fn) : TRUE]

\* u: the PID output after output filtering
U == CallOf("output_filter.update").ret[1]

\* the command handed to MotorDriver.set_motor_control
Cmd == CallOf("motor_driver.set_motor_control").args[1]

\* r: what RateLimiter.update returned
R == CallOf("rate_limiting_filter.update").ret[1]

Completed == status = "completed"

\* |u * PWM_MAX| < n and |u * PWM_MAX| > n, n in PWM counts
ScaledBelow(u, n) == Abs(u * PWM_RESOLUTION) < n * Resolution

ScaledAbove(u, n) == Abs(u * PWM_RESOLUTION) > n * Resolution

\* the control law as the specification states it (section 4.1, steps 6-8)
ControlLawReference(u) ==
    IF ScaledBelow(u, deadband_threshold_) THEN 0
    ELSE IF u # 0 /\ ScaledBelow(u, minimum_output_) THEN Sign(u) * minimum_output_
    ELSE TruncDiv(u * PWM_RESOLUTION, Resolution)

\* the order of collaborator calls the specification lists (section 4.1)
StepOrder ==
    << "encoder.update", "encoder.get_velocity_radians_per_second",
       "input_filter.update", "rate_limiting_filter.update", "pid.update",
       "output_filter.update", "motor_driver.set_motor_control" >>

----------------------------------------------------------------------------
(* Claims *)

\* C1: after set_target completes, the command written to the driver has
\* magnitude at most PWM_MAX, and when |u * PWM_MAX| > PWM_MAX it is exactly
\* +PWM_MAX or -PWM_MAX.
C1_CommandWithinPwmRange ==
    Completed =>
        /\ Cmd <= PWM_RESOLUTION
        /\ Cmd >= -PWM_RESOLUTION
        /\ ScaledAbove(U, PWM_RESOLUTION) => Cmd = Sign(U) * PWM_RESOLUTION

\* C2: the command written equals the control-law reference applied to u:
\* 0 inside the deadband, sign(u) * minimum_output when nonzero and below the
\* minimum, trunc(u * PWM_MAX) otherwise.
C2_CommandIsControlLaw == Completed => Cmd = ControlLawReference(U)

\* C3: a nonzero command written to the driver has magnitude at least
\* minimum_output.
C3_NonzeroAtLeastMinimum ==
    (Completed /\ Cmd # 0) => (Cmd >= minimum_output_ \/ Cmd <= -minimum_output_)

\* a step whose output lay between the two thresholds and was raised to the floor
C3_Witness ==
    /\ Completed
    /\ Cmd # 0
    /\ U # 0
    /\ ~FLess(abs(FromReal(U)), deadband_threshold_)
    /\ FLess(abs(FromReal(U)), minimum_output_)

\* C4: when |u * PWM_MAX| is strictly below deadband_threshold, the command
\* written is exactly 0.
C4_DeadbandWritesZero ==
    (Completed /\ ScaledBelow(U, deadband_threshold_)) => Cmd = 0

\* a step with a nonzero output inside the deadband
C4_Witness ==
    Completed /\ U # 0 /\ ScaledBelow(U, deadband_threshold_) /\ Cmd = 0

\* C5: the sign of a nonzero command equals the sign of the PID output after
\* output filtering.
C5_SignPreserved == (Completed /\ Cmd # 0) => Sign(Cmd) = Sign(U)

\* C6: get_setpoint() returns exactly the real value RateLimiter.update
\* returned during the most recent successful set_target, fraction included.
C6_SetpointIsRateLimited == Completed => FromInt64(get_setpoint) = R

\* C7: the collaborator calls of a step occur in the order Encoder.update,
\* velocity read, InputFilter, RateLimiter, PID, OutputFilter, driver write:
\* a step that fails made a prefix of them, one that completes made them all.
C7_CallOrder ==
    /\ Len(calls) <= Len(StepOrder)
    /\ \A i \in 1..Len(calls) : calls[i].fn = StepOrder[i]
    /\ Completed => Len(calls) = Len(StepOrder)

\* a completed step
C7_Witness == Completed /\ Len(calls) = 7 /\ R = 500

\* C8: a step either completes with exactly one command written to the driver,
\* or fails with none written (a driver write that throws is not repeated and
\* leaves the driver's command as it was); no collaborator is called twice.
C8_OneWriteOrNone ==
    /\ Completed => Cardinality(Writes(calls)) = 1
    /\ status = "failed" => Writes(calls) = {}
    /\ \A i, j \in 1..Len(calls) : calls[i].fn = calls[j].fn => i = j

\* a step in which the driver write itself threw, after an earlier step had
\* written another command, which the driver still holds
C8_Witness ==
    /\ status = "failed"
    /\ Len(calls) = 7
    /\ calls[7].fn = "motor_driver.set_motor_control"
    /\ calls[7].threw
    /\ motor_driver_ # 0
    /\ motor_driver_ # calls[7].args[1]

\* C9: no controller whose configuration violates
\* 0 <= deadband_threshold <= minimum_output <= PWM_MAX ever executes set_target.
C9_ConfigurationValidated ==
    status \in {"completed", "failed"} =>
        /\ 0 <= deadband_threshold_
        /\ deadband_threshold_ <= minimum_output_
        /\ minimum_output_ <= PWM_RESOLUTION

\* C10: PID.update is called with (r, y): r exactly what RateLimiter.update
\* returned in that step, y the measurement that was passed to the rate limiter.
C10_PidGetsRateLimitedSetpoint ==
    Made("pid.update") # {} =>
        CallOf("pid.update").args =
            << R, CallOf("rate_limiting_filter.update").args[2] >>

====
